---- MODULE Spec2Model ----
(***************************************************************************)
(* generate_book_of_abstracts.py: main() reads a spreadsheet, checks the   *)
(* required columns, filters the oral presentations, renders the document  *)
(* with create_book_of_abstracts() and saves it.  The document is modelled *)
(* as the sequence of its markup elements in document order; a cell value  *)
(* is a tagged sequence of characters.                                     *)
(***************************************************************************)
EXTENDS Integers, Sequences, FiniteSets, TLC

VARIABLES
    input,      \* what pd.read_excel(input_file) will meet: status, columns, rows
    pc,         \* position in main()
    df,         \* the DataFrame read
    df_oral,    \* the filtered DataFrame
    doc,        \* the Document under construction (markup elements, in order)
    bid,        \* bid[0], the bookmark id counter of create_book_of_abstracts
    idx,        \* number of rows the running loop has completed
    outfile,    \* what this run has left at output_file
    saves,      \* number of calls of doc.save
    exit_code,  \* process exit status (-1 while running)
    stdout,     \* the ERROR lines printed
    text,       \* argument of clean_text (clean_text specification)
    results     \* results of the successive clean_text calls

vars == <<input, pc, df, df_oral, doc, bid, idx, outfile, saves, exit_code,
          stdout, text, results>>

mainVars == <<input, pc, df, df_oral, doc, bid, idx, outfile, saves,
              exit_code, stdout>>

(* Bounds of the model *)
MaxRows == 3
MaxLen == 4

-----------------------------------------------------------------------------
(* Cell values.  A cell is NaN (blank), a string or a number; chars is the  *)
(* text str() gives for it.                                                 *)

NaN == [kind |-> "nan", chars |-> <<"n", "a", "n">>]
StrCell(cs) == [kind |-> "str", chars |-> cs]
IntCell(cs) == [kind |-> "int", chars |-> cs]

\* pd.isna(text)
isna(v) == v.kind = "nan"

\* str(text): the type of the cell is lost, its rendering is kept
str(v) == v.chars

\* A control character that is not whitespace (e.g. U+0001)
CTRL == "^A"

\* Characters matched by \s and removed by str.strip()
Whitespace == {" ", "\n", "\t"}

Chars == {"a", " ", "\n", "\t", CTRL}

RECURSIVE SkipSpace(_)
\* the rest of s after the whitespace run at its head
SkipSpace(s) ==
    IF s # <<>> /\ Head(s) \in Whitespace THEN SkipSpace(Tail(s)) ELSE s

RECURSIVE re_sub_each(_)
\* re.sub(r'\s', ' ', text): every whitespace character replaced on its own
re_sub_each(s) ==
    IF s = <<>> THEN <<>>
    ELSE IF Head(s) \in Whitespace
         THEN <<" ">> \o re_sub_each(Tail(s))
         ELSE <<Head(s)>> \o re_sub_each(Tail(s))

RECURSIVE re_sub_space(_)
\* re.sub(r'\s+', ' ', text)
re_sub_space(s) ==
    IF s = <<>> THEN <<>>
    ELSE IF Head(s) \in Whitespace
         THEN <<" ">> \o re_sub_space(SkipSpace(s))
         ELSE <<Head(s)>> \o re_sub_space(Tail(s))

RECURSIVE rstrip(_)
rstrip(s) ==
    IF s # <<>> /\ s[Len(s)] \in Whitespace
    THEN rstrip(SubSeq(s, 1, Len(s) - 1)) ELSE s

\* text.strip()
strip(s) == rstrip(SkipSpace(s))

\* clean_text(text)
clean_text(v) ==
    IF isna(v) THEN <<>>
    ELSE strip(re_sub_space(str(v)))

-----------------------------------------------------------------------------
(* clean_text, applied to a text and again to its own result *)

RECURSIVE SeqsUpTo(_, _)
SeqsUpTo(S, n) ==
    IF n = 0 THEN {<<>>}
    ELSE LET shorter == SeqsUpTo(S, n - 1)
         IN shorter \cup {Append(s, c) : s \in shorter, c \in S}

CleanInputs == {NaN} \cup {StrCell(s) : s \in SeqsUpTo(Chars, MaxLen)}
                     \cup {IntCell(<<"1">>)}

InitClean ==
    /\ text \in CleanInputs
    /\ results = <<>>
    /\ input = [status |-> "none", columns |-> {}, rows |-> <<>>]
    /\ pc = "clean_text"
    /\ df = [columns |-> {}, rows |-> <<>>]
    /\ df_oral = <<>>
    /\ doc = <<>>
    /\ bid = 0
    /\ idx = 0
    /\ outfile = "absent"
    /\ saves = 0
    /\ exit_code = -1
    /\ stdout = <<>>

\* clean_text(text)
CleanFirst ==
    /\ pc = "clean_text"
    /\ results = <<>>
    /\ results' = <<clean_text(text)>>
    /\ UNCHANGED <<text, mainVars>>

\* clean_text(clean_text(text))
CleanAgain ==
    /\ pc = "clean_text"
    /\ Len(results) = 1
    /\ results' = Append(results, clean_text(StrCell(results[1])))
    /\ UNCHANGED <<text, mainVars>>

NextClean == CleanFirst \/ CleanAgain

SpecClean == InitClean /\ [][NextClean]_vars

NonSpace(s) == SelectSeq(s, LAMBDA c : c \notin Whitespace)

\* C9: clean_text is idempotent and normalizing: cleaning a cleaned text
\* changes nothing; the result neither starts nor ends with whitespace, its
\* only whitespace is single spaces between other characters, the other
\* characters are kept in order; a missing value gives the empty string.
C9_CleanTextIdempotentNormal ==
    /\ Len(results) >= 1 =>
          LET r == results[1] IN
          /\ r # <<>> => r[1] \notin Whitespace /\ r[Len(r)] \notin Whitespace
          /\ \A i \in 1..Len(r) : r[i] \in Whitespace => r[i] = " "
          /\ \A i \in 1..(Len(r) - 1) :
                 ~(r[i] \in Whitespace /\ r[i + 1] \in Whitespace)
          /\ isna(text) => r = <<>>
          /\ ~isna(text) => NonSpace(r) = NonSpace(str(text))
    /\ Len(results) = 2 => results[2] = results[1]

\* a text with an inner run of two different whitespace characters has been
\* cleaned twice
C9_Witness ==
    /\ text = StrCell(<<"a", "\t", "\n", "a">>)
    /\ Len(results) = 2
    /\ results[1] = <<"a", " ", "a">>

-----------------------------------------------------------------------------
(* The spreadsheet *)

\* required_cols (main)
required_cols == <<"Submission ID", "Title", "Authors", "Abstract", "Decision">>

Range(s) == {s[i] : i \in 1..Len(s)}

\* Submission IDs: the number 1, the text "1", the number 2
SubIds == {IntCell(<<"1">>), StrCell(<<"1">>), IntCell(<<"2">>)}

Decisions == {StrCell(<<"Oral Presentation">>), StrCell(<<"Poster Presentation">>)}

\* Title, Authors and Abstract cells of a row: a row that renders, a row
\* whose title holds a control character, a row whose abstract holds one
Contents ==
    { [Title    |-> StrCell(<<" ", "a", "\n", " ", "a">>),
       Authors  |-> NaN,
       Abstract |-> StrCell(<<"a", "\t">>)],
      [Title    |-> StrCell(<<"a", CTRL>>),
       Authors  |-> StrCell(<<"a">>),
       Abstract |-> StrCell(<<"a">>)],
      [Title    |-> StrCell(<<"a">>),
       Authors  |-> StrCell(<<"a">>),
       Abstract |-> StrCell(<<CTRL>>)] }

SheetRows ==
    { [SubmissionID |-> i, Decision |-> d,
       Title |-> c.Title, Authors |-> c.Authors, Abstract |-> c.Abstract] :
      i \in SubIds, d \in Decisions, c \in Contents }

RECURSIVE RowSeqs(_)
RowSeqs(n) ==
    IF n = 0 THEN {<<>>}
    ELSE LET shorter == RowSeqs(n - 1)
         IN shorter \cup {Append(s, r) : s \in {t \in shorter : Len(t) = n - 1},
                                         r \in SheetRows}

\* What read_excel can meet: no file, a file it cannot read, a sheet that
\* lacks some of the required columns, a sheet with all of them and rows
Inputs ==
    {[status |-> st, columns |-> {}, rows |-> <<>>] :
        st \in {"FileNotFoundError", "Exception"}}
    \cup {[status |-> "ok", columns |-> cs \cup {"Track"}, rows |-> <<>>] :
            cs \in (SUBSET Range(required_cols)) \ {Range(required_cols)}}
    \cup {[status |-> "ok", columns |-> Range(required_cols), rows |-> rs] :
            rs \in RowSeqs(MaxRows)}

\* the rows of a DataFrame carry their index label
WithIndex(rows) ==
    [i \in 1..Len(rows) |->
        [index |-> i, SubmissionID |-> rows[i].SubmissionID,
         Decision |-> rows[i].Decision, Title |-> rows[i].Title,
         Authors |-> rows[i].Authors, Abstract |-> rows[i].Abstract]]

-----------------------------------------------------------------------------
(* Markup elements of the document *)

Item(el, name, id, txt, row, part) ==
    [el |-> el, name |-> name, id |-> id, text |-> txt, row |-> row,
     part |-> part]

\* add_bookmark(para, name, bid): bookmarkStart and bookmarkEnd around the run
add_bookmark(name, b, runText, row, part) ==
    << Item("bookmarkStart", name, b, <<>>, row, part) >>
    \o (IF runText = <<>> THEN <<>>
        ELSE << Item("run", <<>>, 0, runText, row, part) >>)
    \o << Item("bookmarkEnd", <<>>, b, <<>>, row, part) >>

\* add_hyperlink(para, text, anchor, ...)
add_hyperlink(txt, anchor, row, part) ==
    << Item("hyperlink", anchor, 0, txt, row, part) >>

\* f"SUB_{sub_id}"
SUB(sub_id) == <<"SUB_">> \o str(sub_id)

\* f"TOC_SUB_{sub_id}"
TOC_SUB(sub_id) == <<"TOC_SUB_">> \o str(sub_id)

\* a "Back to Contents" link that leads to the heading of the contents
BackAnchor_toc(sub_id) == <<"TOC">>

\* the anchor of the "Back to Contents" link
BackAnchor(sub_id) == TOC_SUB(sub_id)

\* lxml accepts a text only without control characters
XMLCompatible(txt) == \A i \in 1..Len(txt) : txt[i] # CTRL

RECURSIVE UntilRaise(_)
\* the elements written before the first one whose text makes lxml raise
UntilRaise(items) ==
    IF items = <<>> THEN <<>>
    ELSE IF XMLCompatible(Head(items).text)
         THEN <<Head(items)>> \o UntilRaise(Tail(items))
         ELSE <<>>

\* next_bid() calls made while writing the elements
NextBidCalls(items) ==
    Cardinality({i \in 1..Len(items) : items[i].el = "bookmarkStart"})

\* next_bid() that returns the counter without advancing it
next_bid_stuck(b) == b

\* next_bid(): bid[0] += 1; return bid[0]
next_bid(b) == b + 1

\* a contents row whose anchors are named after the row's index label
TocRowItems_indexed(row, b) ==
    add_hyperlink(str(row.SubmissionID), <<"SUB_", ToString(row.index)>>, row.index, "tocrow")
    \o add_bookmark(<<"TOC_SUB_", ToString(row.index)>>, b, <<>>, row.index, "tocrow")
    \o add_hyperlink(clean_text(row.Title), <<"SUB_", ToString(row.index)>>, row.index, "tocrow")
    \o add_hyperlink(clean_text(row.Authors), <<"SUB_", ToString(row.index)>>, row.index, "tocrow")

\* The elements of one table-of-contents row (TOC rows loop body)
TocRowItems(row, b) ==
    add_hyperlink(str(row.SubmissionID), SUB(row.SubmissionID), row.index, "tocrow")
    \o add_bookmark(TOC_SUB(row.SubmissionID), b, <<>>, row.index, "tocrow")
    \o add_hyperlink(clean_text(row.Title), SUB(row.SubmissionID), row.index, "tocrow")
    \o add_hyperlink(clean_text(row.Authors), SUB(row.SubmissionID), row.index, "tocrow")

\* The elements of one abstract card (ABSTRACTS loop body)
CardItems(row, b, last) ==
    add_bookmark(SUB(row.SubmissionID), b,
                 <<"Submission ID: ">> \o str(row.SubmissionID), row.index, "card")
    \o << Item("run", <<>>, 0, <<"Track: ">>, row.index, "card"),
          Item("run", <<>>, 0, clean_text(row.Title), row.index, "card"),
          Item("run", <<>>, 0, clean_text(row.Authors), row.index, "card"),
          Item("run", <<>>, 0, <<"Abstract: ">>, row.index, "card"),
          Item("run", <<>>, 0, clean_text(row.Abstract), row.index, "card") >>
    \o add_hyperlink(<<"Back to Contents">>, BackAnchor(row.SubmissionID),
                     row.index, "back")
    \o (IF last THEN <<>> ELSE << Item("spacer", <<>>, 0, <<>>, 0, "spacer") >>)

-----------------------------------------------------------------------------
(* main() *)

Init ==
    /\ input \in Inputs
    /\ pc = "read_excel"
    /\ df = [columns |-> {}, rows |-> <<>>]
    /\ df_oral = <<>>
    /\ doc = <<>>
    /\ bid = 0
    /\ idx = 0
    /\ outfile = "absent"
    /\ saves = 0
    /\ exit_code = -1
    /\ stdout = <<>>
    /\ text = NaN
    /\ results = <<>>

\* print(ERROR ...); sys.exit(0)
Fail_status0(msg, arg) ==
    /\ stdout' = Append(stdout, [msg |-> msg, arg |-> arg])
    /\ exit_code' = 0
    /\ pc' = "exit"

\* print(ERROR ...); sys.exit(1)
Fail(msg, arg) ==
    /\ stdout' = Append(stdout, [msg |-> msg, arg |-> arg])
    /\ exit_code' = 1
    /\ pc' = "exit"

\* an exception nobody catches: traceback, exit status 1
Uncaught == Fail("Traceback", <<>>)

\* df = pd.read_excel(input_file), with its two except clauses
ReadExcel ==
    /\ pc = "read_excel"
    /\ IF input.status = "FileNotFoundError"
       THEN Fail("ERROR: File not found", <<>>) /\ UNCHANGED df
       ELSE IF input.status = "Exception"
       THEN Fail("ERROR: Could not read Excel file", <<>>) /\ UNCHANGED df
       ELSE /\ df' = [columns |-> input.columns, rows |-> WithIndex(input.rows)]
            /\ pc' = "check_columns"
            /\ UNCHANGED <<stdout, exit_code>>
    /\ UNCHANGED <<input, df_oral, doc, bid, idx, outfile, saves, text, results>>

\* only the first missing column is reported
missing_cols_first(d) ==
    LET m == SelectSeq(required_cols, LAMBDA col : col \notin d.columns)
    IN SubSeq(m, 1, 1)

\* missing_cols = [col for col in required_cols if col not in df.columns]
missing_cols(d) == SelectSeq(required_cols, LAMBDA col : col \notin d.columns)

\* Check required columns
CheckColumns ==
    /\ pc = "check_columns"
    /\ IF missing_cols(df) # <<>>
       THEN Fail("ERROR: Missing required columns", missing_cols(df))
       ELSE pc' = "filter" /\ UNCHANGED <<stdout, exit_code>>
    /\ UNCHANGED <<input, df, df_oral, doc, bid, idx, outfile, saves, text, results>>

\* a filter that keeps every row with a decision
IsOral_notna(row) == ~isna(row.Decision)

\* df[df['Decision'] == 'Oral Presentation']
IsOral(row) == row.Decision = StrCell(<<"Oral Presentation">>)

\* a filter without the check of len(df_oral) == 0
Filter_unchecked ==
    /\ pc = "filter"
    /\ df_oral' = SelectSeq(df.rows, IsOral)
    /\ pc' = "create"
    /\ UNCHANGED <<input, df, doc, bid, idx, outfile, saves, exit_code, stdout, text, results>>

\* Filter for Oral Presentations
Filter ==
    /\ pc = "filter"
    /\ df_oral' = SelectSeq(df.rows, IsOral)
    /\ IF Len(df_oral') = 0
       THEN Fail("ERROR: No oral presentations found in the data.", <<>>)
       ELSE pc' = "create" /\ UNCHANGED <<stdout, exit_code>>
    /\ UNCHANGED <<input, df, doc, bid, idx, outfile, saves, text, results>>

\* create_book_of_abstracts: title page, "Table of Contents" heading with the
\* TOC bookmark, header row of the contents table
CreateBegin ==
    /\ pc = "create"
    /\ doc' = << Item("title_page", <<>>, 0, <<>>, 0, "title") >>
              \o add_bookmark(<<"TOC">>, next_bid(bid), <<"Table of Contents">>, 0, "heading")
              \o << Item("table_header", <<>>, 0, <<>>, 0, "toc") >>
    /\ bid' = next_bid(bid)
    /\ idx' = 0
    /\ pc' = "toc_rows"
    /\ UNCHANGED <<input, df, df_oral, outfile, saves, exit_code, stdout, text, results>>

\* a loop body that gives up the row that raises and goes on with the next
LoopBody_skip(items, here) ==
    LET written == UntilRaise(items) IN
    /\ doc' = doc \o written
    /\ bid' = IF NextBidCalls(written) = 0 THEN bid ELSE next_bid(bid)
    /\ idx' = idx + 1
    /\ pc' = here
    /\ UNCHANGED <<stdout, exit_code>>

\* one pass of a loop body: the elements are written until one raises
LoopBody(items, here) ==
    LET written == UntilRaise(items) IN
    /\ doc' = doc \o written
    /\ bid' = IF NextBidCalls(written) = 0 THEN bid ELSE next_bid(bid)
    /\ IF written = items
       THEN idx' = idx + 1 /\ pc' = here /\ UNCHANGED <<stdout, exit_code>>
       ELSE idx' = idx /\ Uncaught

\* TOC rows: for idx, (_, row) in enumerate(df_oral.iterrows())
TocRow ==
    /\ pc = "toc_rows"
    /\ idx < Len(df_oral)
    /\ LoopBody(TocRowItems(df_oral[idx + 1], next_bid(bid)), "toc_rows")
    /\ UNCHANGED <<input, df, df_oral, outfile, saves, text, results>>

\* the contents loop is exhausted: doc.add_page_break()
TocDone ==
    /\ pc = "toc_rows"
    /\ idx = Len(df_oral)
    /\ doc' = Append(doc, Item("page_break", <<>>, 0, <<>>, 0, "break"))
    /\ idx' = 0
    /\ pc' = "abstracts"
    /\ UNCHANGED <<input, df, df_oral, bid, outfile, saves, exit_code, stdout, text, results>>

\* a cards loop that walks the records from the last to the first
Card_reversed ==
    /\ pc = "abstracts"
    /\ idx < Len(df_oral)
    /\ LoopBody(CardItems(df_oral[Len(df_oral) - idx], next_bid(bid),
                          idx + 1 = Len(df_oral)), "abstracts")
    /\ UNCHANGED <<input, df, df_oral, outfile, saves, text, results>>

\* ABSTRACTS: for idx, (_, row) in enumerate(df_oral.iterrows())
Card ==
    /\ pc = "abstracts"
    /\ idx < Len(df_oral)
    /\ LoopBody(CardItems(df_oral[idx + 1], next_bid(bid), idx + 1 = Len(df_oral)),
                "abstracts")
    /\ UNCHANGED <<input, df, df_oral, outfile, saves, text, results>>

\* the cards loop is exhausted: return doc
CardsDone ==
    /\ pc = "abstracts"
    /\ idx = Len(df_oral)
    /\ pc' = "save"
    /\ UNCHANGED <<input, df, df_oral, doc, bid, idx, outfile, saves, exit_code, stdout, text, results>>

\* doc.save(output_file): written; PermissionError on opening the file,
\* caught; any other OSError while writing, not caught
Save ==
    /\ pc = "save"
    /\ saves' = saves + 1
    /\ \/ /\ outfile' = "complete"
          /\ pc' = "success"
          /\ UNCHANGED <<stdout, exit_code>>
       \/ /\ outfile' = outfile
          /\ Fail("ERROR: Cannot save file.", <<>>)
       \/ /\ outfile' \in {"absent", "partial"}
          /\ Uncaught
    /\ UNCHANGED <<input, df, df_oral, doc, bid, idx, text, results>>

\* the SUCCESS banner; main() returns
Success ==
    /\ pc = "success"
    /\ exit_code' = 0
    /\ pc' = "exit"
    /\ UNCHANGED <<input, df, df_oral, doc, bid, idx, outfile, saves, stdout, text, results>>

Next ==
    \/ ReadExcel
    \/ CheckColumns
    \/ Filter
    \/ CreateBegin
    \/ TocRow
    \/ TocDone
    \/ Card
    \/ CardsDone
    \/ Save
    \/ Success

Spec == Init /\ [][Next]_vars

-----------------------------------------------------------------------------
(* Reading the document *)

\* create_book_of_abstracts has returned the document
Rendered == pc \in {"save", "success"} \/ saves > 0

Oral == <<"Oral Presentation">>

\* the index labels of the rows, in order
Indices(rows) == [i \in 1..Len(rows) |-> rows[i].index]

Elements(el, part) == SelectSeq(doc, LAMBDA it : it.el = el /\ it.part = part)

\* the rows the elements of one kind belong to, in document order
RowsOf(el, part) ==
    LET s == Elements(el, part) IN [i \in 1..Len(s) |-> s[i].row]

IsPrefix(a, b) == Len(a) <= Len(b) /\ a = SubSeq(b, 1, Len(a))

Positions(part) == {i \in 1..Len(doc) : doc[i].part = part}

Bookmarks == SelectSeq(doc, LAMBDA it : it.el = "bookmarkStart")

\* C1: no row whose Decision is not exactly 'Oral Presentation' has a
\* contents row or a card in the document; every row whose Decision is that
\* literal is handed to create_book_of_abstracts and, once the document is
\* rendered, has a contents row and a card.
C1_OnlyOralRowsRendered ==
    /\ \A i \in 1..Len(doc) :
          doc[i].row # 0 => df.rows[doc[i].row].Decision.chars = Oral
    /\ pc \notin {"read_excel", "check_columns", "filter"} =>
          Indices(df_oral) =
              Indices(SelectSeq(df.rows, LAMBDA r : r.Decision.chars = Oral))
    /\ Rendered =>
          \A k \in 1..Len(df.rows) :
              df.rows[k].Decision.chars = Oral =>
                  /\ \E i \in Positions("tocrow") : doc[i].row = k
                  /\ \E i \in Positions("card") : doc[i].row = k

\* a sheet with an oral row between two other rows has been rendered and saved
C1_Witness ==
    /\ outfile = "complete"
    /\ Len(df.rows) = 3
    /\ df.rows[1].Decision.chars # Oral
    /\ df.rows[2].Decision.chars = Oral
    /\ df.rows[3].Decision.chars # Oral

\* C3: for N records the document holds exactly N contents rows and N cards,
\* both in the order of the records (the k-th of each belongs to the k-th
\* record), and every contents row comes before every card.
C3_RowsAndCardsInInputOrder ==
    /\ IsPrefix(RowsOf("bookmarkStart", "tocrow"), Indices(df_oral))
    /\ IsPrefix(RowsOf("bookmarkStart", "card"), Indices(df_oral))
    /\ \A i \in Positions("tocrow") :
          \A j \in Positions("card") \cup Positions("back") : i < j
    /\ Rendered =>
          /\ RowsOf("bookmarkStart", "tocrow") = Indices(df_oral)
          /\ RowsOf("bookmarkStart", "card") = Indices(df_oral)
          /\ RowsOf("hyperlink", "back") = Indices(df_oral)
          /\ Len(RowsOf("hyperlink", "tocrow")) = 3 * Len(df_oral)
          /\ \A k \in 1..Len(df_oral) : \A c \in 0..2 :
                RowsOf("hyperlink", "tocrow")[3 * k - c] = df_oral[k].index

\* two records, not the first rows of the sheet, have been rendered
C3_Witness ==
    /\ Rendered
    /\ Len(df_oral) = 2
    /\ Indices(df_oral) = <<2, 3>>
    /\ Len(Elements("bookmarkStart", "card")) = 2

\* C10: the bookmark ids of a document are unique: in document order they
\* are 1, 2, 3, ... (so 1..2N+1 for the N records of a rendered document:
\* 'TOC', one per contents row, one per card), also when Submission IDs
\* repeat; every bookmarkStart is followed by one bookmarkEnd of its id.
C10_BookmarkIdsUnique ==
    /\ \A k \in 1..Len(Bookmarks) : Bookmarks[k].id = k
    /\ Len(Bookmarks) = bid
    /\ Rendered => Len(Bookmarks) = 2 * Len(df_oral) + 1
    /\ \A i \in 1..Len(doc) :
          doc[i].el = "bookmarkStart" =>
              /\ \E j \in (i + 1)..Len(doc) :
                    doc[j].el = "bookmarkEnd" /\ doc[j].id = doc[i].id
              /\ Cardinality({j \in 1..Len(doc) :
                    doc[j].el = "bookmarkEnd" /\ doc[j].id = doc[i].id}) = 1

\* a document of three records, two of them with the same Submission ID
C10_Witness ==
    /\ Rendered
    /\ Len(df_oral) = 3
    /\ df_oral[1].SubmissionID = df_oral[3].SubmissionID
    /\ bid = 7

\* every bookmark a link's anchor names lies in the given part of the given row
Resolves(link, part) ==
    /\ \E k \in 1..Len(Bookmarks) : Bookmarks[k].name = link.name
    /\ \A k \in 1..Len(Bookmarks) :
          Bookmarks[k].name = link.name =>
              Bookmarks[k].part = part /\ Bookmarks[k].row = link.row

\* navigation round-trips: the links of a contents row lead to the card of
\* its record and nowhere else, the "Back to Contents" link after a card
\* leads to the contents row of its record and nowhere else
RoundTrip ==
    \A i \in 1..Len(doc) :
        doc[i].el = "hyperlink" =>
            /\ doc[i].part = "tocrow" =>
                  /\ doc[i].name = SUB(df.rows[doc[i].row].SubmissionID)
                  /\ Resolves(doc[i], "card")
            /\ doc[i].part = "back" =>
                  /\ doc[i].name = TOC_SUB(df.rows[doc[i].row].SubmissionID)
                  /\ doc[i].name # <<"TOC">>
                  /\ Resolves(doc[i], "tocrow")

\* the Submission ID cells are pairwise distinct values
DistinctIds ==
    \A i, j \in 1..Len(df_oral) :
        i # j => df_oral[i].SubmissionID # df_oral[j].SubmissionID

\* the Submission IDs are pairwise distinct as str() renders them
DistinctRenderings ==
    \A i, j \in 1..Len(df_oral) :
        i # j => str(df_oral[i].SubmissionID) # str(df_oral[j].SubmissionID)

\* C2 as stated: with pairwise-distinct Submission IDs navigation round-trips
\* in the rendered document.
C2_AsStated == (Rendered /\ DistinctIds) => RoundTrip

\* C2: for records whose Submission IDs are pairwise distinct as rendered by
\* str(), navigation round-trips in the rendered document: each link of the
\* contents row of record i names SUB_<id_i>, a bookmark found on the card of
\* record i only; the 'Back to Contents' link after that card names
\* TOC_SUB_<id_i> (not 'TOC'), a bookmark found on the contents row of
\* record i only; so every anchor names an existing bookmark.
C2_RoundTripDistinctRenderings == (Rendered /\ DistinctRenderings) => RoundTrip

\* a document of two records with different renderings of their IDs
C2_Witness ==
    /\ Rendered
    /\ Len(df_oral) = 2
    /\ DistinctRenderings
    /\ Len(Elements("hyperlink", "back")) = 2

NoOralRow ==
    /\ input.status = "ok"
    /\ \A c \in Range(required_cols) : c \in input.columns
    /\ \A k \in 1..Len(input.rows) : input.rows[k].Decision.chars # Oral

\* C4: a readable sheet with all required columns and no row whose Decision
\* is 'Oral Presentation' ends in an error message and exit status 1;
\* create_book_of_abstracts and doc.save are never called and no output
\* file is produced.
C4_NoOralRowsIsAnError ==
    NoOralRow =>
        /\ pc \in {"read_excel", "check_columns", "filter", "exit"}
        /\ doc = <<>> /\ bid = 0 /\ saves = 0 /\ outfile = "absent"
        /\ pc = "exit" =>
              /\ exit_code = 1
              /\ stdout = <<[msg |-> "ERROR: No oral presentations found in the data.",
                             arg |-> <<>>]>>

\* a sheet of two poster rows has been rejected
C4_Witness ==
    /\ NoOralRow
    /\ Len(input.rows) = 2
    /\ pc = "exit"
    /\ df_oral = <<>>

MissingColumn ==
    /\ input.status = "ok"
    /\ \E c \in Range(required_cols) : c \notin input.columns

\* C5: a sheet that lacks required columns ends with the error that lists
\* exactly the missing required columns (each once, none that is present)
\* and exit status 1, before the filter and before the document is created.
C5_MissingColumnsReported ==
    MissingColumn =>
        /\ pc \in {"read_excel", "check_columns", "exit"}
        /\ df_oral = <<>> /\ doc = <<>> /\ saves = 0
        /\ pc = "exit" =>
              /\ exit_code = 1
              /\ Len(stdout) = 1
              /\ stdout[1].msg = "ERROR: Missing required columns"
              /\ Range(stdout[1].arg) = Range(required_cols) \ input.columns
              /\ Len(stdout[1].arg) = Cardinality(Range(stdout[1].arg))

\* a sheet without its Title and Decision columns has been rejected
C5_Witness ==
    /\ pc = "exit"
    /\ input.status = "ok"
    /\ Range(required_cols) \ input.columns = {"Title", "Decision"}
    /\ stdout # <<>>

\* the five failures main() reports
ReportedErrors ==
    {"ERROR: File not found", "ERROR: Could not read Excel file",
     "ERROR: Missing required columns",
     "ERROR: No oral presentations found in the data.",
     "ERROR: Cannot save file."}

\* C6: each of the five reported failures (file not found, unreadable,
\* missing columns, no oral row, permission denied on saving) ends the
\* process at once with a non-zero exit status and leaves no output file of
\* this run, complete or partial; the successful run saves exactly once and
\* exits with status 0.
C6_FailuresExitNonZeroNoFile ==
    /\ \A k \in 1..Len(stdout) :
          stdout[k].msg \in ReportedErrors =>
              /\ pc = "exit" /\ exit_code # 0 /\ Len(stdout) = 1
              /\ outfile = "absent"
    /\ (pc = "exit" /\ (input.status # "ok" \/ MissingColumn \/ NoOralRow)) =>
          (exit_code # 0 /\ stdout # <<>> /\ stdout[1].msg \in ReportedErrors)
    /\ saves <= 1
    /\ pc = "success" => (saves = 1 /\ outfile = "complete" /\ stdout = <<>>)
    /\ (pc = "exit") = (exit_code # -1)
    /\ exit_code = 0 => (saves = 1 /\ outfile = "complete" /\ stdout = <<>>)

\* a run has ended on the permission error of doc.save
C6_Witness ==
    /\ pc = "exit"
    /\ saves = 1
    /\ stdout = <<[msg |-> "ERROR: Cannot save file.", arg |-> <<>>]>>

\* the texts of a row that go into the document
Renderable(row) ==
    /\ XMLCompatible(clean_text(row.Title))
    /\ XMLCompatible(clean_text(row.Authors))
    /\ XMLCompatible(clean_text(row.Abstract))

\* C7: rendering is all-or-nothing: doc.save is called only on a document in
\* which every filtered record has its contents row and its card; when a row
\* makes the rendering fail the run ends with a non-zero status and nothing
\* is saved, so no output file holds a part of the records.
C7_AllOrNothing ==
    /\ (saves > 0 \/ outfile # "absent" \/ pc \in {"save", "success"}) =>
          /\ RowsOf("bookmarkStart", "tocrow") = Indices(df_oral)
          /\ RowsOf("hyperlink", "back") = Indices(df_oral)
          /\ \A k \in 1..Len(df_oral) : Renderable(df_oral[k])
    /\ (\E k \in 1..Len(df_oral) : ~Renderable(df_oral[k])) =>
          /\ saves = 0 /\ outfile = "absent"
          /\ pc \notin {"save", "success"}
          /\ pc = "exit" =>
                (exit_code = 1 /\ stdout = <<[msg |-> "Traceback", arg |-> <<>>]>>)

\* the rendering has failed in the cards loop, at the third record, after
\* all contents rows and two cards were written
C7_Witness ==
    /\ pc = "exit"
    /\ Len(df_oral) = 3
    /\ Len(Elements("bookmarkStart", "tocrow")) = 3
    /\ Len(Elements("hyperlink", "back")) = 2
    /\ saves = 0

\* number of bookmarks of a name
Occurrences(name) ==
    Cardinality({k \in 1..Len(Bookmarks) : Bookmarks[k].name = name})

\* number of records with the Submission ID
Sharing(sub_id) ==
    Cardinality({k \in 1..Len(df_oral) : df_oral[k].SubmissionID = sub_id})

SharedId == \E i, j \in 1..Len(df_oral) :
                i # j /\ df_oral[i].SubmissionID = df_oral[j].SubmissionID

\* C8: records that share a Submission ID do not stop the rendering (it
\* fails only on a text lxml refuses) and still get one contents row and one
\* card each; the bookmark names SUB_<id> and TOC_SUB_<id> then occur once
\* per record sharing the id, so more than once.
C8_DuplicateIdsCollideOnly ==
    SharedId =>
        /\ (pc = "exit" /\ \A k \in 1..Len(df_oral) : Renderable(df_oral[k]))
              => saves = 1
        /\ Rendered =>
              /\ Len(Elements("bookmarkStart", "tocrow")) = Len(df_oral)
              /\ Len(Elements("bookmarkStart", "card")) = Len(df_oral)
              /\ \A k \in 1..Len(df_oral) :
                    Sharing(df_oral[k].SubmissionID) > 1 =>
                        /\ Occurrences(SUB(df_oral[k].SubmissionID)) > 1
                        /\ Occurrences(TOC_SUB(df_oral[k].SubmissionID)) > 1
                        /\ Occurrences(SUB(df_oral[k].SubmissionID))
                              >= Sharing(df_oral[k].SubmissionID)
                        /\ Occurrences(TOC_SUB(df_oral[k].SubmissionID))
                              >= Sharing(df_oral[k].SubmissionID)

\* two records with the same Submission ID have been rendered and saved
C8_Witness ==
    /\ outfile = "complete"
    /\ Len(df_oral) = 2
    /\ df_oral[1].SubmissionID = df_oral[2].SubmissionID
    /\ Occurrences(SUB(df_oral[1].SubmissionID)) = 2

====
